---- MODULE Spec2Model ----
(***************************************************************************)
(* Model of the US_Stock filing-insight pipeline:                          *)
(*   src/src/orchestrator.py  run(), download_worker(), api_worker()       *)
(*   src/src/storage.py       Storage (processing_log, filing_insights,    *)
(*                            the JSONL audit file)                        *)
(*   src/src/api_client.py    GeminiClient.extract() and its retry loop    *)
(*   src/src/downloader.py    download_filing(): its outcome, its lock,    *)
(*                            cache and semaphore                          *)
(*   src/src/parser.py        _best_match, _extract_between,               *)
(*                            _smart_truncate                              *)
(*   src/main.py              _main(): the startup probe, one process per  *)
(*                            run                                          *)
(*                                                                         *)
(* Store writes are separate steps: the store state between any two of a   *)
(* worker's writes is a reachable state (it is what a killed process       *)
(* leaves behind).  asyncio runs the code between two awaits without       *)
(* interleaving, so the model allows every interleaving the event loop     *)
(* allows and some more.                                                   *)
(***************************************************************************)
EXTENDS Integers, Sequences, FiniteSets, TLC

\* ------------------------------------------------------------ bounds

\* Number of successive processes (runs of main.py) over the same store.
MaxRuns == 2

\* Number of store writes that may raise over the whole behaviour.
MaxStoreFaults == 1

\* Largest sentiment score and longest concern list the service returns.
MaxScore == 12
MaxConcerns == 5

\* asyncio.Queue(maxsize=30) of orchestrator.py:28, scaled down.
ApiQMax == 1

\* Number of Storage calls made on a store exercised on its own.
MaxCalls == 3

\* Largest max_chars given to _smart_truncate; its text is up to one longer.
MaxText == 5

\* Longest document given to _extract_between.
MaxDoc == 5

\* ------------------------------------------------------------ configuration

\* config.SEC_WORKERS (8) and config.VERTEX_WORKERS (6), scaled down.
DlWorkers == {"d1", "d2"}
ApiWorkers == {"a1", "a2"}
SEC_WORKERS == Cardinality(DlWorkers)
VERTEX_WORKERS == Cardinality(ApiWorkers)

\* config.YEARS, as listed in stocks.toml (year descending).
YEARS == <<2>>

\* config.COMPANIES: tier -> tickers, in file order.  Two configurations:
\* two tickers in two tiers, and one ticker listed under both tiers.
Configs ==
  { << <<"t1", <<"A">> >>, <<"t2", <<"B">> >> >>,
    << <<"t1", <<"A">> >>, <<"t2", <<"A">> >> >> }

\* A larger configuration: six tickers in two tiers.
LoadConfig == << <<"t1", <<"A", "B", "C">> >>, <<"t2", <<"D", "E", "F">> >> >>

Tickers == {"A", "B", "C", "D", "E", "F"}
Tiers == {"t1", "t2"}
YearSet == {YEARS[i] : i \in 1..Len(YEARS)}
Units == Tickers \X YearSet
AllItems == {<<t, g, y>> : t \in Tickers, g \in Tiers, y \in YearSet}

\* The keys a Storage exercised on its own is called with.
StoreKeys == {"A", "B"} \X YearSet

\* config.IPO_YEAR_FLOOR: no entry at all, or ticker B not listed before year 3.
NoFloor == [t \in Tickers |-> 0]
Floors == {NoFloor, [NoFloor EXCEPT !["B"] = 3]}

\* The sentinel None of work_q and api_q.
None == <<>>

UnitOf(item) == <<item[1], item[3]>>

\* ------------------------------------------------------------ state

VARIABLES
  COMPANIES,        \* the loaded configuration (fixed for the behaviour)
  IPO_YEAR_FLOOR,   \* config.IPO_YEAR_FLOOR: ticker -> floor year, 0 for no entry
  fetchResp,        \* remote document service: unit -> "path" | "none" | "error"
  svcResp,          \* analysis service: unit -> its outcome on every call
  processing_log,   \* table processing_log: set of rows
  filing_insights,  \* table filing_insights: set of rows
  jsonl,            \* the audit file: sequence of lines
  runNo,            \* which process this is
  runPc,            \* position of run()
  done,             \* run()'s local `done` (orchestrator.py:15)
  work_items,       \* run()'s local `work_items` (orchestrator.py:18)
  work_q,
  api_q,
  dl,               \* download_worker tasks: worker -> [pc, item]
  api,              \* api_worker tasks: worker -> [pc, item, data]
  sent,             \* sentinels run() has put on api_q so far
  dlFailed,         \* gather(*dl_tasks) raised
  faults,           \* store writes that raised so far
  log0,             \* processing_log when this run started
  fetched,          \* items passed to download_filing in this run
  analysed,         \* items passed to gemini.extract in this run
  writes,           \* item -> status writes made for it in this run
  exPc,             \* GeminiClient.extract: "off" | "loop" | "returned"
  exAttempt,        \* extract's loop variable `attempt`
  exLastErr,        \* extract's local `last_err`
  exResult,         \* what extract returned
  exTrace,          \* outcomes of the service calls extract has made
  cik_cache,        \* downloader._cik_cache: the tickers it holds
  cik_lock,         \* downloader._cik_lock: "free" or the task holding it
  sem,              \* sec_semaphore: permits left
  fw,               \* tasks inside download_filing: task -> position
  populations,      \* times _load_cik_map has filled the cache
  calls,            \* the Storage calls made so far, in order
  vArgs,            \* (ticker, year, form_type) of a call of extract/_validate
  vReply,           \* the service response given to _validate (the latest one)
  vOut,             \* what _validate returned or raised
  pText,            \* parser.py: the text given to the function under study
  pMax,             \* _smart_truncate's max_chars
  pOut,             \* what the function returned
  probeOk,          \* the analysis service: model -> whether a probe of it succeeds
  mainPc,           \* position of main.py's _main
  probeIdx,         \* probe_and_build_client: index of the next candidate
  probed,           \* the candidates probed so far, in order
  gemini,           \* _main's `gemini`: the client's model_name, "none" before
  storeOpen,        \* _main's `storage` is open
  analyses,         \* the analysis calls made: <<ticker, model used>>
  exPrompt,         \* extract's local `prompt` of the current attempt
  exWait            \* the delay extract last slept, in tenths of a second

exVars == <<exPc, exAttempt, exLastErr, exResult, exTrace>>
fetchVars == <<cik_cache, cik_lock, sem, fw, populations>>
valVars == <<vArgs, vReply, vOut>>
parseVars == <<pText, pMax, pOut>>
probeVars == <<probeOk, mainPc, probeIdx, probed, gemini, storeOpen, analyses>>
retryVars == <<exPrompt, exWait>>
restVars == <<parseVars, probeVars, retryVars>>

\* The variables of the parts modelled on their own: download_filing's
\* requests, a Storage under arbitrary calls, _validate and its inputs,
\* the functions of parser.py.
partVars == <<fetchVars, calls, valVars, restVars>>

vars == <<COMPANIES, IPO_YEAR_FLOOR, fetchResp, svcResp, processing_log, filing_insights,
          jsonl, runNo, runPc, done, work_items, work_q, api_q, dl, api, sent,
          dlFailed, faults, log0, fetched, analysed, writes, exVars, partVars>>

\* What no step of run() changes: the configuration, the two remote
\* services, and the variables of the parts modelled on their own.
cfgVars == <<COMPANIES, IPO_YEAR_FLOOR, fetchResp, svcResp, exVars, partVars>>
pipeVars == <<COMPANIES, IPO_YEAR_FLOOR, fetchResp, svcResp, processing_log, filing_insights,
              jsonl, runNo, runPc, done, work_items, work_q, api_q, dl, api, sent,
              dlFailed, faults, log0, fetched, analysed, writes>>
histVars == <<log0, fetched, analysed, writes>>
storeVars == <<processing_log, filing_insights, jsonl>>

\* ------------------------------------------------------------ storage.py

Row(tbl, t, y) == {r \in tbl : r.ticker = t /\ r.fiscal_year = y}

\* (mutant) INSERT OR REPLACE: the row is replaced, attempts starts again.
log_status_replace(tbl, t, y, status, error) ==
  {r \in tbl : ~(r.ticker = t /\ r.fiscal_year = y)}
    \cup {[ticker |-> t, fiscal_year |-> y, status |-> status,
            error_message |-> error, attempts |-> 1]}

\* Storage.log_status: INSERT ... ON CONFLICT(ticker, fiscal_year) DO UPDATE.
log_status(tbl, t, y, status, error) ==
  IF Row(tbl, t, y) # {}
  THEN {IF r.ticker = t /\ r.fiscal_year = y
        THEN [r EXCEPT !.status = status, !.error_message = error,
                       !.attempts = r.attempts + 1]
        ELSE r : r \in tbl}
  ELSE tbl \cup {[ticker |-> t, fiscal_year |-> y, status |-> status,
                  error_message |-> error, attempts |-> 1]}

\* (mutant) a filing_insights without its UNIQUE(ticker, fiscal_year): every
\* call inserts.
insert_insight(tbl, t, tier, y, data, model_name) ==
  tbl \cup {[id |-> Cardinality(tbl) + 1, ticker |-> t, tier |-> tier,
            fiscal_year |-> y, data |-> data, extraction_model |-> model_name]}

\* Storage.upsert_insight: on conflict every column of the SET list is
\* overwritten; ticker, tier and fiscal_year are not in that list.
upsert_insight(tbl, t, tier, y, data, model_name) ==
  IF Row(tbl, t, y) # {}
  THEN {IF r.ticker = t /\ r.fiscal_year = y
        THEN [r EXCEPT !.data = data, !.extraction_model = model_name]
        ELSE r : r \in tbl}
  ELSE tbl \cup {[id |-> Cardinality(tbl) + 1, ticker |-> t, tier |-> tier,
                  fiscal_year |-> y, data |-> data, extraction_model |-> model_name]}

\* (mutant) one line per unit: an earlier line of the unit is replaced.
rewrite_jsonl(file, t, y, data) ==
  Append(SelectSeq(file, LAMBDA l : ~(l.ticker = t /\ l.year = y)),
         [ticker |-> t, year |-> y, data |-> data])

\* Storage.append_jsonl: the file is opened in append mode.
append_jsonl(file, t, y, data) ==
  Append(file, [ticker |-> t, year |-> y, data |-> data])

\* (mutant) a done-set that also takes the units that only reached "parsed".
get_done_set_parsed(tbl) ==
  {<<r.ticker, r.fiscal_year>> : r \in {x \in tbl : x.status \in {"extracted", "parsed"}}}

\* Storage.get_done_set.
get_done_set(tbl) ==
  {<<r.ticker, r.fiscal_year>> : r \in {x \in tbl : x.status = "extracted"}}

\* (mutant) the file opened with mode "w".
open_jsonl_truncating(file) == <<>>

\* Storage.__init__ line 67: open(config.JSONL_PATH, "a") keeps what the
\* file holds.
open_jsonl(file) == file

\* What the callers pass to the Storage: the statuses and error texts of
\* log_status, and the (record, model) pairs of upsert_insight.
Statuses == {"parsed", "failed", "extracted"}
Errors == {"null", "err"}
Payloads == {<<"validated", "gemini">>, <<"null_skeleton", "fallback">>}

StoreKeep == UNCHANGED <<COMPANIES, IPO_YEAR_FLOOR, fetchResp, svcResp, runNo, runPc, done, work_items,
                         work_q, api_q, dl, api, sent, dlFailed, faults, log0, fetched,
                         analysed, writes, exVars, fetchVars, valVars, restVars>>

\* A call of Storage.log_status.
SLogStatus ==
  /\ Len(calls) < MaxCalls
  /\ \E u \in StoreKeys, st \in Statuses, e \in Errors :
       /\ processing_log' = log_status(processing_log, u[1], u[2], st, e)
       /\ calls' = Append(calls, [op |-> "log_status", unit |-> u, status |-> st, error |-> e])
  /\ UNCHANGED <<filing_insights, jsonl>>
  /\ StoreKeep

\* A call of Storage.upsert_insight.
SUpsertInsight ==
  /\ Len(calls) < MaxCalls
  /\ \E u \in StoreKeys, g \in Tiers, p \in Payloads :
       /\ filing_insights' = upsert_insight(filing_insights, u[1], g, u[2], p[1], p[2])
       /\ calls' = Append(calls, [op |-> "upsert_insight", unit |-> u, tier |-> g,
                                  data |-> p[1], model |-> p[2]])
  /\ UNCHANGED <<processing_log, jsonl>>
  /\ StoreKeep

\* A call of Storage.append_jsonl.
SAppendJsonl ==
  /\ Len(calls) < MaxCalls
  /\ \E u \in StoreKeys, p \in Payloads :
       /\ jsonl' = append_jsonl(jsonl, u[1], u[2], p[1])
       /\ calls' = Append(calls, [op |-> "append_jsonl", unit |-> u, data |-> p[1]])
  /\ UNCHANGED <<processing_log, filing_insights>>
  /\ StoreKeep

\* Storage.close and a new Storage() on the same files (the next process):
\* CREATE TABLE IF NOT EXISTS keeps the tables, the audit file is reopened.
SReopen ==
  /\ Len(calls) < MaxCalls
  /\ jsonl' = open_jsonl(jsonl)
  /\ calls' = Append(calls, [op |-> "init"])
  /\ UNCHANGED <<processing_log, filing_insights>>
  /\ StoreKeep

StatusOf(tbl, u) ==
  IF Row(tbl, u[1], u[2]) = {} THEN "absent"
  ELSE (CHOOSE r \in Row(tbl, u[1], u[2]) : TRUE).status

AttemptsOf(tbl, u) ==
  IF Row(tbl, u[1], u[2]) = {} THEN 0
  ELSE (CHOOSE r \in Row(tbl, u[1], u[2]) : TRUE).attempts


\* ------------------------------------------------------------ api_client.py

\* _MAX_RETRIES
MAX_RETRIES == 4

\* What one call of generate_content, _parse_response and _validate can end in:
\* a record that validates, or an exception (quota / 429, unavailable / 503,
\* json.JSONDecodeError, ValueError of _validate, anything else).
SvcOutcomes == {"ok", "rate_limit", "unavailable", "unparsable", "invalid", "other"}

\* (mutant) one attempt too many.
LoopDoneLate(attempt) == attempt > MAX_RETRIES

\* for attempt in range(_MAX_RETRIES): the loop is over.
LoopDone(attempt) == attempt >= MAX_RETRIES

\* `except Exception as e` (api_client.py:181) catches every failure of the
\* call, of _parse_response and of _validate.
Caught(outcome) == outcome \in SvcOutcomes \ {"ok"}

\* _build_null_skeleton (the fields the callers read).
build_null_skeleton ==
  [kind |-> "null_skeleton", capex_guidance_tone |-> "conservative",
   mda_sentiment_score |-> 5, macro_concerns |-> <<"null", "null", "null">>]

\* The record _validate returns for the response of service call number n.
Validated(n) == [kind |-> "validated", call |-> n]

\* GeminiClient.extract, as a function of the service's outcome on each
\* attempt (svc: 0..MAX_RETRIES-1 -> SvcOutcomes): the record of the first
\* attempt that validates, else _build_null_skeleton after the last one.
RECURSIVE extract_loop(_, _)
extract_loop(attempt, svc) ==
  IF LoopDone(attempt) THEN [data |-> "null_skeleton", calls |-> attempt]
  ELSE IF svc[attempt] = "ok" THEN [data |-> "validated", calls |-> attempt + 1]
  ELSE extract_loop(attempt + 1, svc)

extract(svc) == extract_loop(0, svc)

\* One pass of extract's loop body (api_client.py:167-197): the call, and
\* either the return of the validated record or the handler, which keeps the
\* error in last_err and sleeps before the next attempt.
ExAttempt ==
  /\ exPc = "loop"
  /\ ~LoopDone(exAttempt)
  /\ \E o \in SvcOutcomes :
       /\ exTrace' = Append(exTrace, o)
       /\ IF o = "ok"
          THEN /\ exPc' = "returned"
               /\ exResult' = Validated(Len(exTrace) + 1)
               /\ UNCHANGED <<exAttempt, exLastErr>>
          ELSE IF Caught(o)
          THEN /\ exLastErr' = o
               /\ exAttempt' = exAttempt + 1
               /\ UNCHANGED <<exPc, exResult>>
          ELSE /\ exPc' = "raised"
               /\ UNCHANGED <<exAttempt, exLastErr, exResult>>
  /\ UNCHANGED <<pipeVars, partVars>>

\* api_client.py:199-200: all attempts failed.
ExGiveUp ==
  /\ exPc = "loop"
  /\ LoopDone(exAttempt)
  /\ exPc' = "returned"
  /\ exResult' = build_null_skeleton
  /\ UNCHANGED <<exAttempt, exLastErr, exTrace>>
  /\ UNCHANGED <<pipeVars, partVars>>

\* ---- the parsed response of the service, as _validate reads it
\*
\* A JSON value is a tagged tuple: an integer, a string that holds a decimal
\* integer, any other string, or null.
Num(n) == <<"int", n>>
NumStr(n) == <<"str", n>>
Text == <<"text">>
Null == <<"null">>
Absent == <<"absent">>

\* isinstance(v, str)
IsStr(v) == v[1] \in {"str", "text"}

\* int(v) raises ValueError for a string that is no integer and TypeError
\* for None.
IntRaises(v) == v[1] \in {"text", "null", "absent"}
IntOf(v) == v[2]

\* `required` of _validate.
Required ==
  {"ai_investment_focus", "ai_monetization_status", "capex_guidance_tone",
   "china_exposure_risk", "supply_chain_bottlenecks", "restructuring_plans",
   "efficiency_initiatives", "mda_sentiment_score", "macro_concerns",
   "growing_segments", "shrinking_segments"}

\* _CAPEX_VALUES
CAPEX_VALUES == {"aggressive", "conservative", "reducing"}

\* A tone that is a JSON list or object: `not in _CAPEX_VALUES` raises
\* TypeError for it.
Unhashable == "<list>"

Min(a, b) == IF a < b THEN a ELSE b
Max(a, b) == IF a > b THEN a ELSE b

\* (mutant) only the upper end is clamped.
clamp_upper_only(score) == Min(10, score)

\* line 106: max(1, min(10, int(score)))
clamp(score) == Max(1, Min(10, score))

Nulls == <<"null", "null", "null">>

\* lines 108-114: macro_concerns forced to three entries.
fix_concerns(mc) ==
  IF mc[1] # "list" THEN Nulls
  ELSE IF Len(mc[2]) < 3 THEN SubSeq(mc[2] \o Nulls, 1, 3)
  ELSE SubSeq(mc[2], 1, 3)

\* str.upper, on the tickers of the model.
Upper(t) == IF t = "b" THEN "B" ELSE t

\* (mutant) absent fields are not reported (and get their defaults later).
missing_ignored(data) == {}

\* line 93: the required fields the response lacks.
missing_fields(data) == data.missing

ValidationError(exc) == [kind |-> "raise", exc |-> exc]

\* (mutant) the service's echo is kept when it is there.
stamp_trusting(data, ticker, year, form_type) ==
  [ticker |-> IF data.ticker = Absent THEN Upper(ticker) ELSE data.ticker[2],
   year |-> IF data.year = Absent THEN year ELSE IntOf(data.year),
   filing_type |-> IF data.filing_type = Absent THEN form_type ELSE data.filing_type[2]]

\* lines 116-118: ticker, year and filing_type come from the arguments.
stamp(data, ticker, year, form_type) ==
  [ticker |-> Upper(ticker), year |-> year, filing_type |-> form_type]

\* _validate(data, ticker, year, form_type): the record it returns, or the
\* exception it raises.  A field that is absent counts as null where the
\* code reads it with data.get.
validate(data, ticker, year, form_type) ==
  IF missing_fields(data) # {} THEN ValidationError("ValueError")
  ELSE IF IsStr(data.year) /\ IntRaises(data.year) THEN ValidationError("ValueError")
  ELSE IF IsStr(data.score) /\ IntRaises(data.score) THEN ValidationError("ValueError")
  ELSE IF data.tone = Unhashable THEN ValidationError("TypeError")
  ELSE IF IntRaises(data.score) THEN ValidationError("TypeError")
  ELSE LET st == stamp(data, ticker, year, form_type) IN
       [kind |-> "validated",
        capex_guidance_tone |-> IF data.tone \in CAPEX_VALUES THEN data.tone
                                ELSE "conservative",
        mda_sentiment_score |-> clamp(IntOf(data.score)),
        macro_concerns |-> fix_concerns(data.concerns),
        ticker |-> st.ticker, year |-> st.year, filing_type |-> st.filing_type]

\* _build_null_skeleton(ticker, year, form_type), with the fields that
\* identify the unit.
null_skeleton(ticker, year, form_type) ==
  [kind |-> "null_skeleton", capex_guidance_tone |-> "conservative",
   mda_sentiment_score |-> 5, macro_concerns |-> Nulls,
   ticker |-> Upper(ticker), year |-> year, filing_type |-> form_type]

\* ---- the responses and arguments the model tries
Str(x) == <<"s", x>>
ConcernNames == <<"c1", "c2", "c3", "c4", "c5", "c6", "c7">>
ConcernVals == {<<"list", SubSeq(ConcernNames, 1, n)>> : n \in 0..MaxConcerns} \cup {<<"other">>}
ScoreVals == {Num(n) : n \in (-2)..MaxScore} \cup {NumStr(0), NumStr(7), NumStr(11), Text, Null}
ToneVals == CAPEX_VALUES \cup {"bullish", "null", Unhashable}

BaseReply ==
  [kind |-> "data", missing |-> {}, score |-> Num(7), tone |-> "aggressive",
   concerns |-> <<"list", SubSeq(ConcernNames, 1, 3)>>,
   ticker |-> Str("A"), year |-> Num(2), filing_type |-> Str("10-K")]

\* Responses that differ in the values _validate coerces ...
ValueVariants ==
  {[BaseReply EXCEPT !.score = sc, !.tone = tn, !.concerns = mc] :
     sc \in ScoreVals, tn \in ToneVals, mc \in ConcernVals}

\* ... in the one required field they lack ...
MissingVariants == {[BaseReply EXCEPT !.missing = {f}] : f \in Required}

\* ... and in what they echo for ticker, year and filing_type.
EchoVariants ==
  {[BaseReply EXCEPT !.ticker = t, !.year = y, !.filing_type = ft] :
     t \in {Absent, Str("A"), Str("X")},
     y \in {Absent, Num(2), Num(3), NumStr(3), Text},
     ft \in {Absent, Str("10-K"), Str("20-F")}}

Replies == ValueVariants \cup MissingVariants \cup EchoVariants

\* What generate_content gives extract(): a response, or an exception.
ServiceReplies ==
  MissingVariants \cup EchoVariants \cup {[kind |-> "exception", exc |-> "rate_limit"]}

\* (ticker, year, form_type) of a call; api_worker passes the ticker as the
\* configuration spells it.
ArgSet == [ticker : {"A", "b"}, year : YearSet, form_type : {"10-K", "20-F"}]

ValKeep == UNCHANGED <<pipeVars, fetchVars, calls, restVars>>

\* One call of _validate.
VValidate ==
  /\ vArgs # <<>>
  /\ vOut = <<>>
  /\ exPc = "off"
  /\ vOut' = validate(vReply, vArgs.ticker, vArgs.year, vArgs.form_type)
  /\ UNCHANGED <<vArgs, vReply, exVars>>
  /\ ValKeep

\* One pass of extract's loop body (api_client.py:167-197) with the
\* response in hand: _validate's record is returned, and an exception of
\* the call or of _validate goes to the handler.
ExAttemptData ==
  /\ exPc = "loop"
  /\ vArgs # <<>>
  /\ ~LoopDone(exAttempt)
  /\ \E reply \in ServiceReplies :
       LET out == IF reply.kind = "exception" THEN ValidationError(reply.exc)
                  ELSE validate(reply, vArgs.ticker, vArgs.year, vArgs.form_type)
           o == IF out.kind = "validated" THEN "ok"
                ELSE IF reply.kind = "exception" THEN reply.exc ELSE "invalid"
       IN /\ vReply' = reply
          /\ exTrace' = Append(exTrace, o)
          /\ IF o = "ok"
             THEN /\ exPc' = "returned"
                  /\ exResult' = out
                  /\ UNCHANGED <<exAttempt, exLastErr>>
             ELSE /\ Caught(o)
                  /\ exLastErr' = o
                  /\ exAttempt' = exAttempt + 1
                  /\ UNCHANGED <<exPc, exResult>>
  /\ UNCHANGED <<vArgs, vOut>>
  /\ ValKeep

\* api_client.py:199-200 with the arguments in hand.
ExGiveUpData ==
  /\ exPc = "loop"
  /\ vArgs # <<>>
  /\ LoopDone(exAttempt)
  /\ exPc' = "returned"
  /\ exResult' = null_skeleton(vArgs.ticker, vArgs.year, vArgs.form_type)
  /\ UNCHANGED <<exAttempt, exLastErr, exTrace, vArgs, vReply, vOut>>
  /\ ValKeep

\* gemini.model_name, fixed by probe_and_build_client before run().
model_name == "gemini"

\* ------------------------------------------------------------ downloader.py

\* download_filing: a path, None (no filing found) or an exception.
\* `floor and year < floor` of download_filing.
BelowFloor(t, y) == IPO_YEAR_FLOOR[t] # 0 /\ y < IPO_YEAR_FLOOR[t]

\* The outcome of download_filing: None for a year below the ticker's floor,
\* before any request; otherwise what the remote service gives.
download_filing(t, y, resp) == IF BelowFloor(t, y) THEN "none" ELSE resp[<<t, y>>]

\* config.SEC_RATE_LIMIT (8), scaled down, and the tasks that call
\* download_filing: more of them than the ceiling.
SEC_RATE_LIMIT == 2
FetchTasks == {"f1", "f2", "f3"}

\* Tickers download_filing is called with: one the SEC's ticker file lists,
\* one it does not.
FetchTickers == {"A", "Z"}

\* _cik_cache after the loop of lines 39-42 and the hardcoded entries of
\* lines 45-48, and after a loop that raised on its second entry.
FullMap == {"A", "SQ"}
PartMap == {"A"}

FwIdle == [pc |-> "idle", ticker |-> "A"]

\* (mutant) _load_cik_map without the re-check after acquiring the lock.
RecheckSkipped(cache) == FALSE

\* `if _cik_cache:` (lines 28 and 31): the dict is not empty.
Recheck(cache) == cache # {}

\* (mutant) a semaphore that never makes its caller wait.
SemFreeAlways(value) == TRUE

\* asyncio.Semaphore.acquire returns at once when the value is positive.
SemFree(value) == value > 0

FwKeep == UNCHANGED <<pipeVars, exVars, calls, valVars, restVars>>

\* download_filing lines 142-153: the pre-IPO and cached-file returns make
\* no request; otherwise _load_cik_map is called.
FBegin(w) ==
  /\ fw[w].pc = "idle"
  /\ \E t \in FetchTickers, cached \in BOOLEAN :
       fw' = [fw EXCEPT ![w] = [pc |-> IF cached THEN "idle" ELSE "load", ticker |-> t]]
  /\ UNCHANGED <<cik_cache, cik_lock, sem, populations>>
  /\ FwKeep

\* _load_cik_map line 28-30: return the cache if it is filled, else wait
\* for the lock.
FCheck(w) ==
  /\ fw[w].pc = "load"
  /\ fw' = [fw EXCEPT ![w].pc = IF cik_cache # {} THEN "have_map" ELSE "lock_wait"]
  /\ UNCHANGED <<cik_cache, cik_lock, sem, populations>>
  /\ FwKeep

\* line 30: async with _get_cik_lock()
FAcquire(w) ==
  /\ fw[w].pc = "lock_wait"
  /\ cik_lock = "free"
  /\ cik_lock' = w
  /\ fw' = [fw EXCEPT ![w].pc = "recheck"]
  /\ UNCHANGED <<cik_cache, sem, populations>>
  /\ FwKeep

\* lines 31-36: the re-check; the lookup request is sent when the cache is
\* still empty.
FRecheck(w) ==
  /\ fw[w].pc = "recheck"
  /\ IF Recheck(cik_cache)
     THEN /\ cik_lock' = "free"
          /\ fw' = [fw EXCEPT ![w].pc = "have_map"]
     ELSE /\ fw' = [fw EXCEPT ![w].pc = "lookup"]
          /\ UNCHANGED cik_lock
  /\ UNCHANGED <<cik_cache, sem, populations>>
  /\ FwKeep

\* lines 33-50: the lookup request completes.  raise_for_status may raise
\* (nothing is cached), an entry without "ticker" raises inside the loop
\* (what was read so far is cached), else the whole file and the hardcoded
\* entries are cached.  The lock is released on every way out.
FLookup(w) ==
  /\ fw[w].pc = "lookup"
  /\ cik_lock' = "free"
  /\ \/ /\ fw' = [fw EXCEPT ![w].pc = "idle"]
        /\ UNCHANGED <<cik_cache, populations>>
     \/ /\ cik_cache' = cik_cache \cup PartMap
        /\ populations' = populations + 1
        /\ fw' = [fw EXCEPT ![w].pc = "idle"]
     \/ /\ cik_cache' = cik_cache \cup FullMap
        /\ populations' = populations + 1
        /\ fw' = [fw EXCEPT ![w].pc = "have_map"]
  /\ UNCHANGED sem
  /\ FwKeep

\* download_filing lines 154-159: no CIK for the ticker returns None.
FHaveMap(w) ==
  /\ fw[w].pc = "have_map"
  /\ fw' = [fw EXCEPT ![w].pc = IF fw[w].ticker \in cik_cache THEN "sub_wait" ELSE "idle"]
  /\ UNCHANGED <<cik_cache, cik_lock, sem, populations>>
  /\ FwKeep

Waiting == [sub_wait |-> "sub_req", page_wait |-> "page_req", dl_wait |-> "dl_req"]

\* `async with semaphore:` at lines 62, 115 and 164.
FSemAcquire(w) ==
  /\ fw[w].pc \in DOMAIN Waiting
  /\ SemFree(sem)
  /\ sem' = sem - 1
  /\ fw' = [fw EXCEPT ![w].pc = Waiting[fw[w].pc]]
  /\ UNCHANGED <<cik_cache, cik_lock, populations>>
  /\ FwKeep

\* _get_filing_url lines 62-105: the submissions index has arrived (the
\* semaphore is released); it raises, names the filing, names paginated
\* files to search, or has nothing.
FSubDone(w) ==
  /\ fw[w].pc = "sub_req"
  /\ sem' = sem + 1
  /\ \E nxt \in {"idle", "dl_wait", "page_wait"} : fw' = [fw EXCEPT ![w].pc = nxt]
  /\ UNCHANGED <<cik_cache, cik_lock, populations>>
  /\ FwKeep

\* lines 115-133: one paginated file has arrived.
FPageDone(w) ==
  /\ fw[w].pc = "page_req"
  /\ sem' = sem + 1
  /\ \E nxt \in {"idle", "dl_wait", "page_wait"} : fw' = [fw EXCEPT ![w].pc = nxt]
  /\ UNCHANGED <<cik_cache, cik_lock, populations>>
  /\ FwKeep

\* download_filing lines 164-174: the filing itself has arrived.
FDlDone(w) ==
  /\ fw[w].pc = "dl_req"
  /\ sem' = sem + 1
  /\ fw' = [fw EXCEPT ![w].pc = "idle"]
  /\ UNCHANGED <<cik_cache, cik_lock, populations>>
  /\ FwKeep

\* ------------------------------------------------------------ orchestrator.py

RECURSIVE Concat(_)
Concat(ss) == IF ss = <<>> THEN <<>> ELSE Head(ss) \o Concat(Tail(ss))

\* orchestrator.py:22
\* (every unit taken as pending)
PendingAlways(unit, d) == TRUE

\* `if (ticker, year) not in done` of the work list (orchestrator.py:22).
Pending(unit, d) == unit \notin d

TierItems(tier, tickers, year, d) ==
  SelectSeq([i \in 1..Len(tickers) |-> <<tickers[i], tier, year>>],
            LAMBDA it : Pending(UnitOf(it), d))

\* The work list of run(): year, then tier, then ticker, minus the done-set.
build_work_items(d, companies) ==
  Concat([yi \in 1..Len(YEARS) |->
    Concat([ci \in 1..Len(companies) |->
      TierItems(companies[ci][1], companies[ci][2], YEARS[yi], d)])])

Sentinels(n) == [i \in 1..n |-> None]

\* (mutant) a queue created without maxsize.
CanPutAlways(q, maxsize) == TRUE

\* asyncio.Queue.put returns at once unless the queue is full (maxsize > 0).
CanPut(q, maxsize) == maxsize <= 0 \/ Len(q) < maxsize

Terminal == {"exited", "crashed", "cancelled"}

Idle == [pc |-> "idle", item |-> None, k |-> 0, data |-> "none"]

\* What asyncio.run does to a task still pending when _main() has raised.
Cancel(task) == IF task.pc \in Terminal THEN task ELSE [task EXCEPT !.pc = "cancelled"]

\* (mutant) the hand-off before the status write.
DlPutFirst == <<"put", "log_status">>

\* The steps of download_worker after parser.extract_sections returned.
DlParsedSteps == <<"log_status", "put">>

\* (mutant) the status write before the result is stored.
ApiStatusFirst == <<"log_status", "upsert_insight", "append_jsonl">>

\* The store writes of api_worker after gemini.extract returned.
ApiWriteSteps == <<"upsert_insight", "append_jsonl", "log_status">>

NoWrites == [it \in AllItems |-> <<>>]

\* run(), lines 15-33 and 99-100: the done-set, the work list, both queues,
\* the sentinels of work_q and the worker tasks.  Nothing here suspends
\* (work_q is unbounded).
StartRun ==
  /\ runPc = "start"
  /\ done' = get_done_set(processing_log)
  /\ work_items' = build_work_items(get_done_set(processing_log), COMPANIES)
  /\ work_q' = build_work_items(get_done_set(processing_log), COMPANIES) \o Sentinels(SEC_WORKERS)
  /\ api_q' = <<>>
  /\ dl' = [w \in DlWorkers |-> [Idle EXCEPT !.pc = "get"]]
  /\ api' = [w \in ApiWorkers |-> [Idle EXCEPT !.pc = "get"]]
  /\ runPc' = "gather_dl"
  /\ log0' = processing_log
  /\ UNCHANGED <<cfgVars, storeVars, runNo, sent, dlFailed, faults, fetched, analysed, writes>>

\* download_worker: item = await work_q.get(); the sentinel ends the worker.
DlGet(w) ==
  /\ runPc \notin {"start", "done", "raised"}
  /\ dl[w].pc = "get"
  /\ work_q # <<>>
  /\ work_q' = Tail(work_q)
  /\ dl' = [dl EXCEPT ![w] = IF Head(work_q) = None
                             THEN [@ EXCEPT !.pc = "exited"]
                             ELSE [@ EXCEPT !.pc = "fetch", !.item = Head(work_q)]]
  /\ UNCHANGED <<cfgVars, storeVars, runNo, runPc, done, work_items, api_q, api, sent, dlFailed,
                 faults, log0, fetched, analysed, writes>>

\* (mutant) a worker without the handler: the exception leaves the task.
DlCaughtNone(r) == FALSE

\* `except Exception as e` (orchestrator.py:53) catches what download_filing
\* and parser.extract_sections raise.
DlCaught(r) == r = "error"

\* download_worker: await downloader.download_filing(...); then, for a path,
\* parser.extract_sections.  An exception of either goes to the handler.
DlFetch(w) ==
  /\ dl[w].pc = "fetch"
  /\ LET it == dl[w].item
         r == download_filing(it[1], it[3], fetchResp)
     IN dl' = [dl EXCEPT ![w] =
                 CASE r = "none" -> [@ EXCEPT !.pc = "no_filing"]
                   [] r = "path" -> [@ EXCEPT !.pc = "parsed", !.k = 1]
                   [] DlCaught(r) -> [@ EXCEPT !.pc = "handler"]
                   [] OTHER -> [@ EXCEPT !.pc = "crashed"]]
  /\ fetched' = fetched \cup {dl[w].item}
  /\ UNCHANGED <<cfgVars, storeVars, runNo, runPc, done, work_items, work_q, api_q, api, sent,
                 dlFailed, faults, log0, analysed, writes>>

\* A store write that raises (sqlite3 error, I/O error).
StoreRaises ==
  /\ faults < MaxStoreFaults
  /\ faults' = faults + 1

Logged(it, stage, status) == [writes EXCEPT ![it] = Append(@, <<stage, status>>)]

\* download_worker line 47: storage.log_status(ticker, year, "no_filing"); continue
DlNoFiling(w) ==
  /\ dl[w].pc = "no_filing"
  /\ LET it == dl[w].item IN
     \/ /\ processing_log' = log_status(processing_log, it[1], it[3], "no_filing", "null")
        /\ writes' = Logged(it, "dl", "no_filing")
        /\ dl' = [dl EXCEPT ![w] = [Idle EXCEPT !.pc = "get"]]
        /\ UNCHANGED faults
     \/ /\ StoreRaises
        /\ dl' = [dl EXCEPT ![w] = [@ EXCEPT !.pc = "handler"]]
        /\ UNCHANGED <<processing_log, writes>>
  /\ UNCHANGED <<cfgVars, filing_insights, jsonl, runNo, runPc, done, work_items, work_q, api_q,
                 api, sent, dlFailed, log0, fetched, analysed>>

\* download_worker lines 51-52: log_status "parsed", then await api_q.put(...),
\* which waits while api_q is full.
DlParsed(w) ==
  /\ dl[w].pc = "parsed"
  /\ LET it == dl[w].item
         last == dl[w].k = Len(DlParsedSteps)
         next == IF last THEN [Idle EXCEPT !.pc = "get"] ELSE [dl[w] EXCEPT !.k = @ + 1]
     IN
     \/ /\ DlParsedSteps[dl[w].k] = "log_status"
        /\ processing_log' = log_status(processing_log, it[1], it[3], "parsed", "null")
        /\ writes' = Logged(it, "dl", "parsed")
        /\ dl' = [dl EXCEPT ![w] = next]
        /\ UNCHANGED <<faults, api_q>>
     \/ /\ DlParsedSteps[dl[w].k] = "log_status"
        /\ StoreRaises
        /\ dl' = [dl EXCEPT ![w] = [@ EXCEPT !.pc = "handler"]]
        /\ UNCHANGED <<processing_log, writes, api_q>>
     \/ /\ DlParsedSteps[dl[w].k] = "put"
        /\ CanPut(api_q, ApiQMax)
        /\ api_q' = Append(api_q, it)
        /\ dl' = [dl EXCEPT ![w] = next]
        /\ UNCHANGED <<processing_log, writes, faults>>
  /\ UNCHANGED <<cfgVars, filing_insights, jsonl, runNo, runPc, done, work_items, work_q,
                 api, sent, dlFailed, log0, fetched, analysed>>

\* download_worker lines 53-55: the handler logs "failed"; an exception of
\* that write leaves the worker task.
DlHandler(w) ==
  /\ dl[w].pc = "handler"
  /\ LET it == dl[w].item IN
     \/ /\ processing_log' = log_status(processing_log, it[1], it[3], "failed", "err")
        /\ writes' = Logged(it, "dl", "failed")
        /\ dl' = [dl EXCEPT ![w] = [Idle EXCEPT !.pc = "get"]]
        /\ UNCHANGED faults
     \/ /\ StoreRaises
        /\ dl' = [dl EXCEPT ![w] = [@ EXCEPT !.pc = "crashed"]]
        /\ UNCHANGED <<processing_log, writes>>
  /\ UNCHANGED <<cfgVars, filing_insights, jsonl, runNo, runPc, done, work_items, work_q, api_q,
                 api, sent, dlFailed, log0, fetched, analysed>>


\* api_worker: item = await api_q.get(); the sentinel ends the worker.
ApiGet(w) ==
  /\ api[w].pc = "get"
  /\ api_q # <<>>
  /\ api_q' = Tail(api_q)
  /\ api' = [api EXCEPT ![w] = IF Head(api_q) = None
                               THEN [@ EXCEPT !.pc = "exited"]
                               ELSE [@ EXCEPT !.pc = "extract", !.item = Head(api_q)]]
  /\ UNCHANGED <<cfgVars, storeVars, runNo, runPc, done, work_items, work_q, dl, sent, dlFailed,
                 faults, log0, fetched, analysed, writes>>

\* The analysis service as extract() sees it for one unit: the same outcome
\* on every attempt.
SvcFor(u) == [a \in 0..(MAX_RETRIES - 1) |-> svcResp[u]]

\* api_worker lines 67-79: insights = await gemini.extract(...)
ApiExtract(w) ==
  /\ api[w].pc = "extract"
  /\ api' = [api EXCEPT ![w] = [@ EXCEPT !.pc = "write", !.k = 1,
                                         !.data = extract(SvcFor(UnitOf(api[w].item))).data]]
  /\ analysed' = analysed \cup {api[w].item}
  /\ UNCHANGED <<cfgVars, storeVars, runNo, runPc, done, work_items, work_q, api_q, dl, sent,
                 dlFailed, faults, log0, fetched, writes>>

\* api_worker lines 80-90: the three store writes, in the order of
\* ApiWriteSteps; an exception of any of them goes to the handler.
ApiWrite(w) ==
  /\ api[w].pc = "write"
  /\ LET it == api[w].item
         op == ApiWriteSteps[api[w].k]
         next == IF api[w].k = Len(ApiWriteSteps)
                 THEN [Idle EXCEPT !.pc = "get"]
                 ELSE [api[w] EXCEPT !.k = @ + 1]
     IN
     \/ /\ op = "upsert_insight"
        /\ filing_insights' = upsert_insight(filing_insights, it[1], it[2], it[3],
                                             api[w].data, model_name)
        /\ api' = [api EXCEPT ![w] = next]
        /\ UNCHANGED <<processing_log, jsonl, writes, faults>>
     \/ /\ op = "append_jsonl"
        /\ jsonl' = append_jsonl(jsonl, it[1], it[3], api[w].data)
        /\ api' = [api EXCEPT ![w] = next]
        /\ UNCHANGED <<processing_log, filing_insights, writes, faults>>
     \/ /\ op = "log_status"
        /\ processing_log' = log_status(processing_log, it[1], it[3], "extracted", "null")
        /\ writes' = Logged(it, "api", "extracted")
        /\ api' = [api EXCEPT ![w] = next]
        /\ UNCHANGED <<filing_insights, jsonl, faults>>
     \/ /\ StoreRaises
        /\ api' = [api EXCEPT ![w] = [@ EXCEPT !.pc = "handler"]]
        /\ UNCHANGED <<storeVars, writes>>
  /\ UNCHANGED <<cfgVars, runNo, runPc, done, work_items, work_q, api_q, dl, sent, dlFailed,
                 log0, fetched, analysed>>

\* api_worker lines 92-94: the handler logs "failed"; an exception of that
\* write leaves the worker task.
ApiHandler(w) ==
  /\ api[w].pc = "handler"
  /\ LET it == api[w].item IN
     \/ /\ processing_log' = log_status(processing_log, it[1], it[3], "failed", "err")
        /\ writes' = Logged(it, "api", "failed")
        /\ api' = [api EXCEPT ![w] = [Idle EXCEPT !.pc = "get"]]
        /\ UNCHANGED faults
     \/ /\ StoreRaises
        /\ api' = [api EXCEPT ![w] = [@ EXCEPT !.pc = "crashed"]]
        /\ UNCHANGED <<processing_log, writes>>
  /\ UNCHANGED <<cfgVars, filing_insights, jsonl, runNo, runPc, done, work_items, work_q, api_q,
                 dl, sent, dlFailed, log0, fetched, analysed>>

\* run() raises: _main() closes the store and asyncio.run (main.py:49)
\* cancels every task that is still pending.
Raised ==
  /\ runPc' = "raised"
  /\ dl' = [w \in DlWorkers |-> Cancel(dl[w])]
  /\ api' = [w \in ApiWorkers |-> Cancel(api[w])]

\* run() line 104: await asyncio.gather(*dl_tasks) returns when every
\* download worker has returned, and raises as soon as one has raised.
GatherDl ==
  /\ runPc = "gather_dl"
  /\ \/ /\ \E w \in DlWorkers : dl[w].pc = "crashed"
        /\ dlFailed' = TRUE
     \/ /\ \A w \in DlWorkers : dl[w].pc = "exited"
        /\ dlFailed' = FALSE
  /\ runPc' = "signal"
  /\ UNCHANGED <<cfgVars, storeVars, runNo, done, work_items, work_q, api_q, dl, api, sent,
                 faults, log0, fetched, analysed, writes>>

\* run() lines 105-108: one sentinel per analysis worker, each put waiting
\* while api_q is full; after the last one the exception of gather, if any,
\* leaves run(), else run() goes on to line 111.
Signal ==
  /\ runPc = "signal"
  /\ sent < VERTEX_WORKERS
  /\ CanPut(api_q, ApiQMax)
  /\ api_q' = Append(api_q, None)
  /\ sent' = sent + 1
  /\ IF sent + 1 < VERTEX_WORKERS THEN UNCHANGED <<runPc, dl, api>>
     ELSE IF dlFailed THEN Raised
     ELSE runPc' = "gather_api" /\ UNCHANGED <<dl, api>>
  /\ UNCHANGED <<cfgVars, storeVars, runNo, done, work_items, work_q, dlFailed,
                 faults, log0, fetched, analysed, writes>>

\* (mutant) run() returning as soon as one analysis worker has returned.
GatherApiFirst ==
  /\ runPc = "gather_api"
  /\ \E w \in ApiWorkers : api[w].pc = "exited"
  /\ runPc' = "done"
  /\ UNCHANGED <<cfgVars, storeVars, runNo, done, work_items, work_q, api_q, dl, api,
                 sent, dlFailed, faults, log0, fetched, analysed, writes>>

\* run() line 111: await asyncio.gather(*api_tasks).
GatherApi ==
  /\ runPc = "gather_api"
  /\ \/ /\ \E w \in ApiWorkers : api[w].pc = "crashed"
        /\ Raised
     \/ /\ \A w \in ApiWorkers : api[w].pc = "exited"
        /\ runPc' = "done"
        /\ UNCHANGED <<dl, api>>
  /\ UNCHANGED <<cfgVars, storeVars, runNo, done, work_items, work_q, api_q, sent, dlFailed,
                 faults, log0, fetched, analysed, writes>>

RunLocalReset ==
  /\ done' = {}
  /\ work_items' = <<>>
  /\ work_q' = <<>>
  /\ api_q' = <<>>
  /\ dl' = [w \in DlWorkers |-> Idle]
  /\ api' = [w \in ApiWorkers |-> Idle]
  /\ sent' = 0
  /\ dlFailed' = FALSE
  /\ fetched' = {}
  /\ analysed' = {}
  /\ writes' = NoWrites
  /\ log0' = processing_log

\* The process has ended; main.py is started again on the same store.
NextRun ==
  /\ runPc \in {"done", "raised"}
  /\ runNo < MaxRuns
  /\ runNo' = runNo + 1
  /\ runPc' = "start"
  /\ RunLocalReset
  /\ UNCHANGED <<cfgVars, storeVars, faults>>

\* ------------------------------------------------------------ api_client.py: the handler

\* An exception raised inside extract's try block: whether str(e).lower()
\* holds "quota", "resource_exhausted" or "429", whether it holds
\* "unavailable" or "503", and its type (JSONDecodeError is a ValueError;
\* "APIError" stands for any other type).
ErrTypes == {"JSONDecodeError", "ValueError", "APIError"}
Failures == [quota : BOOLEAN, unavailable : BOOLEAN, type : ErrTypes]

\* last_err before any failure: None.
NoError == [quota |-> FALSE, unavailable |-> FALSE, type |-> "None"]

\* (the two substring rules taken in the other order)
classify_unavailable_first(e) ==
  IF e.unavailable THEN "unavailable"
  ELSE IF e.quota THEN "rate_limit"
  ELSE IF e.type \in {"JSONDecodeError", "ValueError"} THEN "parse"
  ELSE "other"

\* The if/elif chain of the handler (api_client.py:184-197).
classify(e) ==
  IF e.quota THEN "rate_limit"
  ELSE IF e.unavailable THEN "unavailable"
  ELSE IF e.type \in {"JSONDecodeError", "ValueError"} THEN "parse"
  ELSE "other"

\* random.uniform(0, 1), in tenths of a second.
Jitters == {0, 4, 9}

\* What the handler sleeps after attempt number `attempt` failed, in tenths
\* of a second.
wait(class, attempt, jitter) ==
  CASE class = "rate_limit" -> 10 * (2 ^ attempt) + jitter
    [] class = "unavailable" -> 10 * (5 * (attempt + 1))
    [] class = "parse" -> 20
    [] OTHER -> 30

\* (the annotation added to the prompt of the attempt before)
prompt_accumulating(prompt, attempt, last_err) ==
  IF attempt > 0 /\ last_err # NoError
  THEN Append(IF prompt = <<>> THEN <<"user_prompt">> ELSE prompt, last_err)
  ELSE <<"user_prompt">>

\* api_client.py:168-170: `prompt = user_prompt`, annotated with last_err
\* after the first attempt; the prompt of the attempt before is dropped.
build_prompt(prompt, attempt, last_err) ==
  IF attempt > 0 /\ last_err # NoError
  THEN <<"user_prompt", last_err>>
  ELSE <<"user_prompt">>

\* The top of one pass of the loop: the prompt is built.
RPrompt ==
  /\ exPc = "loop"
  /\ ~LoopDone(exAttempt)
  /\ exPrompt' = build_prompt(exPrompt, exAttempt, exLastErr)
  /\ exPc' = "call"
  /\ UNCHANGED <<exAttempt, exLastErr, exResult, exTrace, exWait>>
  /\ UNCHANGED <<pipeVars, fetchVars, calls, valVars, parseVars, probeVars>>

\* The rest of the pass: the call returns a record that validates, or an
\* exception is raised, kept in last_err, and the handler sleeps.
RCall ==
  /\ exPc = "call"
  /\ \/ /\ exPc' = "returned"
        /\ exResult' = Validated(Len(exTrace) + 1)
        /\ UNCHANGED <<exAttempt, exLastErr, exTrace, exWait>>
     \/ \E e \in Failures : \E jitter \in Jitters :
          /\ exTrace' = Append(exTrace, e)
          /\ exLastErr' = e
          /\ exWait' = wait(classify(e), exAttempt,
                            IF classify(e) = "rate_limit" THEN jitter ELSE 0)
          /\ exAttempt' = exAttempt + 1
          /\ exPc' = "loop"
          /\ UNCHANGED exResult
  /\ UNCHANGED exPrompt
  /\ UNCHANGED <<pipeVars, fetchVars, calls, valVars, parseVars, probeVars>>

\* ------------------------------------------------------------ parser.py

\* Python's slice bounds: a negative index counts from the end, and an index
\* outside the text is clamped to it.
PyIndex(i, n) == IF i < 0 THEN Max(i + n, 0) ELSE Min(i, n)

\* text[:k] and text[k:].
SliceTo(text, k) == SubSeq(text, 1, PyIndex(k, Len(text)))
SliceFrom(text, k) == SubSeq(text, PyIndex(k, Len(text)) + 1, Len(text))

\* The marker "\n\n[...TRUNCATED...]\n\n" (21 characters), scaled down to two.
MARKER == <<"[", "]">>

\* int(budget * 0.70): the product truncated toward zero.  (The float product
\* falls just below the exact one for some budgets, the smallest being 90;
\* none of them is within the range modelled here.)
front_of(budget) ==
  IF budget >= 0 THEN (7 * budget) \div 10 ELSE -((7 * (-budget)) \div 10)

\* text[-rear:]
rear_slice(text, rear) == SliceFrom(text, -rear)

smart_truncate(text, max_chars) ==
  IF Len(text) <= max_chars
  THEN text
  ELSE LET budget == max_chars - Len(MARKER)
           front == front_of(budget)
           rear == budget - front
       IN SliceTo(text, front) \o MARKER \o rear_slice(text, rear)

\* The characters of a text: the marker's two and two others.
Chars == {"x", "y", "[", "]"}
TextsUpTo(n) == UNION {[1..k -> Chars] : k \in 0..n}

ParseKeep == UNCHANGED <<pipeVars, exVars, fetchVars, calls, valVars, probeVars, retryVars>>

\* A call of _smart_truncate.
PTruncate ==
  /\ pOut = <<"unset">>
  /\ pOut' = <<"text", smart_truncate(pText, pMax)>>
  /\ UNCHANGED <<pText, pMax>>
  /\ ParseKeep

\* A document as _extract_between sees it: each match of the start pattern
\* is one "S", each match of the two end patterns one "E1" or "E2"; "x" is
\* any other character and " " a whitespace character.
DocTokens == {"S", "E1", "E2", "x", " "}
DocsUpTo(n) == UNION {[1..k -> DocTokens] : k \in 0..n}

\* The 2000 characters a start match must leave after it, scaled down.
TAIL_MIN == 2

\* list(pattern.finditer(text)): where the pattern matches, in order.
RECURSIVE finditer(_, _, _)
finditer(text, tok, from) ==
  IF from > Len(text)
  THEN <<>>
  ELSE (IF text[from] = tok THEN <<from>> ELSE <<>>) \o finditer(text, tok, from + 1)

\* The loop over reversed(matches): the first one in that order whose
\* text[m.end():] is longer than the threshold; 0 when none is.
RECURSIVE scan_reversed(_, _, _)
scan_reversed(text, matches, k) ==
  IF k = 0 THEN 0
  ELSE IF Len(text) - matches[k] > TAIL_MIN THEN matches[k]
  ELSE scan_reversed(text, matches, k - 1)

\* The first match, as pattern.search(text) would give.
first_match(text, tok) ==
  LET matches == finditer(text, tok, 1)
  IN IF matches = <<>> THEN 0 ELSE matches[1]

\* _best_match: the position of the chosen match, 0 for None.
best_match(text, tok) ==
  LET matches == finditer(text, tok, 1)
  IN IF matches = <<>> THEN 0
     ELSE LET m == scan_reversed(text, matches, Len(matches))
          IN IF m # 0 THEN m ELSE matches[Len(matches)]

\* ep.search(text, start): the first match at or after `start`, 0 for None.
search(text, tok, start) ==
  LET matches == finditer(text, tok, start + 1)
  IN IF matches = <<>> THEN 0 ELSE matches[1]

\* The loop over end_pats: `end` after the patterns of eps have been tried.
RECURSIVE end_after(_, _, _, _)
end_after(text, start, eps, end) ==
  IF eps = <<>> THEN end
  ELSE LET em == search(text, Head(eps), start)
       IN end_after(text, start, Tail(eps),
                    IF em # 0 /\ em - 1 < end THEN em - 1 ELSE end)

\* str.strip()
RECURSIVE lstrip(_)
lstrip(t) == IF t # <<>> /\ Head(t) = " " THEN lstrip(Tail(t)) ELSE t
RECURSIVE rstrip(_)
rstrip(t) == IF t # <<>> /\ t[Len(t)] = " " THEN rstrip(SubSeq(t, 1, Len(t) - 1)) ELSE t
strip(t) == rstrip(lstrip(t))

\* _extract_between(text, start_pat, end_pats): <<"none">> for None.
extract_between(text, start_pat, end_pats) ==
  LET m == best_match(text, start_pat)
  IN IF m = 0 THEN <<"none">>
     ELSE LET end == end_after(text, m, end_pats, Len(text))
              section == strip(SubSeq(text, m + 1, end))
          IN IF section = <<>> THEN <<"none">> ELSE <<"text", section>>

\* A call of _extract_between.
PExtract ==
  /\ pOut = <<"unset">>
  /\ pOut' = extract_between(pText, "S", <<"E1", "E2">>)
  /\ UNCHANGED <<pText, pMax>>
  /\ ParseKeep

\* ------------------------------------------------------------ main.py

\* model_priority of probe_and_build_client: config.GEMINI_MODEL, then the
\* two entries of config.GEMINI_MODEL_FALLBACKS.
model_priority == <<"m1", "m2", "m3">>
Models == {model_priority[i] : i \in 1..Len(model_priority)}

\* A probe that is taken to succeed without asking the service.
probe_assumed(m) == TRUE

\* generate_content(model=model_name, contents="Return the word OK.") returns.
probe(m) == probeOk[m]

MainKeep == UNCHANGED <<pipeVars, exVars, fetchVars, calls, valVars, parseVars, retryVars,
                        probeOk>>

\* One iteration of probe_and_build_client's loop; after the last candidate
\* has failed the function raises RuntimeError, which ends _main.
MProbe ==
  /\ mainPc = "probe"
  /\ probeIdx <= Len(model_priority)
  /\ LET m == model_priority[probeIdx]
     IN /\ probed' = Append(probed, m)
        /\ IF probe(m)
           THEN /\ gemini' = m
                /\ mainPc' = "store"
                /\ probeIdx' = probeIdx
           ELSE /\ gemini' = gemini
                /\ mainPc' = IF probeIdx = Len(model_priority) THEN "failed" ELSE "probe"
                /\ probeIdx' = probeIdx + 1
  /\ UNCHANGED <<storeOpen, analyses>>
  /\ MainKeep

\* storage = Storage()
MOpenStore ==
  /\ mainPc = "store"
  /\ storeOpen' = TRUE
  /\ mainPc' = "run"
  /\ UNCHANGED <<probeIdx, probed, gemini, analyses>>
  /\ MainKeep

\* An analysis call made inside orchestrator.run(gemini, storage): extract()
\* asks the service for self.model_name, upsert_insight records it.
MAnalyse ==
  /\ mainPc = "run"
  /\ Len(analyses) < MaxCalls
  /\ \E t \in {"A", "B"} : analyses' = Append(analyses, <<t, gemini>>)
  /\ UNCHANGED <<mainPc, probeIdx, probed, gemini, storeOpen>>
  /\ MainKeep

\* run() returned or raised: the finally clause closes the store.
MClose ==
  /\ mainPc = "run"
  /\ storeOpen' = FALSE
  /\ mainPc' = "exit"
  /\ UNCHANGED <<probeIdx, probed, gemini, analyses>>
  /\ MainKeep

\* ------------------------------------------------------------ specification

FetchOutcomes == {"path", "none", "error"}
PipelineSvc == {"ok", "rate_limit"}

ConfigUnits(companies) ==
  UNION {{<<companies[ci][2][ti], y>> : ti \in 1..Len(companies[ci][2]), y \in YearSet} :
         ci \in 1..Len(companies)}

ExOff ==
  /\ exPc = "off"
  /\ exAttempt = 0
  /\ exLastErr = "null"
  /\ exResult = [kind |-> "none"]
  /\ exTrace = <<>>

StoreEmpty ==
  /\ processing_log = {}
  /\ filing_insights = {}
  /\ jsonl = <<>>

RunLocalInit ==
  /\ done = {}
  /\ work_items = <<>>
  /\ work_q = <<>>
  /\ api_q = <<>>
  /\ dl = [w \in DlWorkers |-> Idle]
  /\ api = [w \in ApiWorkers |-> Idle]
  /\ sent = 0
  /\ dlFailed = FALSE
  /\ faults = 0
  /\ log0 = {}
  /\ fetched = {}
  /\ analysed = {}
  /\ writes = NoWrites

\* No task is inside download_filing: the module globals of downloader.py
\* as the import leaves them, the semaphore as run() creates it.
FetchOff ==
  /\ cik_cache = {}
  /\ cik_lock = "free"
  /\ sem = SEC_RATE_LIMIT
  /\ fw = [w \in FetchTasks |-> FwIdle]
  /\ populations = 0

ValOff ==
  /\ vArgs = <<>>
  /\ vReply = <<>>
  /\ vOut = <<>>

ParseOff ==
  /\ pText = <<>>
  /\ pMax = 0
  /\ pOut = <<"unset">>

\* main.py is not running.
ProbeOff ==
  /\ probeOk = [m \in Models |-> TRUE]
  /\ mainPc = "off"
  /\ probeIdx = 1
  /\ probed = <<>>
  /\ gemini = "none"
  /\ storeOpen = FALSE
  /\ analyses = <<>>

RetryOff ==
  /\ exPrompt = <<>>
  /\ exWait = 0

RestOff == ParseOff /\ ProbeOff /\ RetryOff

PartsOff == FetchOff /\ calls = <<>> /\ ValOff /\ RestOff

\* The pipeline is not running: the parts are exercised on their own.
PipeOff ==
  /\ COMPANIES = CHOOSE c \in Configs : TRUE
  /\ IPO_YEAR_FLOOR = NoFloor
  /\ fetchResp = [u \in Units |-> "none"]
  /\ svcResp = [u \in Units |-> "ok"]
  /\ runNo = 1
  /\ runPc = "off"
  /\ RunLocalInit

\* A fresh store, a configuration, and what the two remote services answer
\* for each unit (the same answer whenever they are asked).
Init ==
  /\ COMPANIES \in Configs
  /\ IPO_YEAR_FLOOR \in Floors
  /\ fetchResp \in [Units -> FetchOutcomes]
  /\ svcResp \in [Units -> PipelineSvc]
  /\ \A u \in Units : u \notin ConfigUnits(COMPANIES) =>
       fetchResp[u] = "none" /\ ~BelowFloor(u[1], u[2])
  /\ \A u \in Units : BelowFloor(u[1], u[2]) => fetchResp[u] = "none"
  /\ \A u \in Units : fetchResp[u] # "path" => svcResp[u] = "ok"
  /\ StoreEmpty
  /\ runNo = 1
  /\ runPc = "start"
  /\ RunLocalInit
  /\ ExOff
  /\ PartsOff

RunStep ==
  \/ StartRun
  \/ \E w \in DlWorkers : DlGet(w) \/ DlFetch(w) \/ DlNoFiling(w) \/ DlParsed(w) \/ DlHandler(w)
  \/ \E w \in ApiWorkers : ApiGet(w) \/ ApiExtract(w) \/ ApiWrite(w) \/ ApiHandler(w)
  \/ GatherDl
  \/ Signal
  \/ GatherApi

Next == RunStep \/ NextRun

Spec == Init /\ [][Next]_vars

\* One call of GeminiClient.extract on its own, against a service that may
\* answer each attempt in any way.
InitExtract ==
  /\ COMPANIES = CHOOSE c \in Configs : TRUE
  /\ IPO_YEAR_FLOOR = NoFloor
  /\ fetchResp = [u \in Units |-> "none"]
  /\ svcResp = [u \in Units |-> "ok"]
  /\ StoreEmpty
  /\ runNo = 1
  /\ runPc = "off"
  /\ RunLocalInit
  /\ exPc = "loop"
  /\ exAttempt = 0
  /\ exLastErr = "null"
  /\ exResult = [kind |-> "none"]
  /\ exTrace = <<>>
  /\ PartsOff

NextExtract == ExAttempt \/ ExGiveUp

SpecExtract == InitExtract /\ [][NextExtract]_vars

\* The tasks of one run inside download_filing, each called again and again
\* with any ticker, sharing _cik_cache, _cik_lock and sec_semaphore.
InitFetch ==
  /\ PipeOff
  /\ StoreEmpty
  /\ ExOff
  /\ FetchOff
  /\ calls = <<>>
  /\ ValOff
  /\ RestOff

NextFetch ==
  \E w \in FetchTasks :
    \/ FBegin(w) \/ FCheck(w) \/ FAcquire(w) \/ FRecheck(w) \/ FLookup(w)
    \/ FHaveMap(w) \/ FSemAcquire(w) \/ FSubDone(w) \/ FPageDone(w) \/ FDlDone(w)

SpecFetch == InitFetch /\ [][NextFetch]_vars

\* A Storage on a fresh database and audit file, under any sequence of calls.
InitStore ==
  /\ PipeOff
  /\ StoreEmpty
  /\ ExOff
  /\ PartsOff

NextStore == SLogStatus \/ SUpsertInsight \/ SAppendJsonl \/ SReopen

SpecStore == InitStore /\ [][NextStore]_vars

\* _validate on its own: any response of Replies, any arguments.
InitValidate ==
  /\ PipeOff
  /\ StoreEmpty
  /\ ExOff
  /\ FetchOff
  /\ calls = <<>>
  /\ vArgs \in ArgSet
  /\ vReply \in Replies
  /\ vOut = <<>>
  /\ RestOff

NextValidate == VValidate

SpecValidate == InitValidate /\ [][NextValidate]_vars

\* One call of extract() with its arguments, the service answering each
\* attempt with any response of ServiceReplies.
InitExtractData ==
  /\ PipeOff
  /\ StoreEmpty
  /\ FetchOff
  /\ calls = <<>>
  /\ exPc = "loop"
  /\ exAttempt = 0
  /\ exLastErr = "null"
  /\ exResult = [kind |-> "none"]
  /\ exTrace = <<>>
  /\ vArgs \in ArgSet
  /\ vReply = <<>>
  /\ vOut = <<>>
  /\ RestOff

NextExtractData == ExAttemptData \/ ExGiveUpData

SpecExtractData == InitExtractData /\ [][NextExtractData]_vars

\* _smart_truncate on its own: any text, any max_chars.
InitTruncate ==
  /\ PipeOff
  /\ StoreEmpty
  /\ ExOff
  /\ FetchOff
  /\ calls = <<>>
  /\ ValOff
  /\ pText \in TextsUpTo(MaxText + 1)
  /\ pMax \in 0..MaxText
  /\ pOut = <<"unset">>
  /\ ProbeOff
  /\ RetryOff

NextTruncate == PTruncate

SpecTruncate == InitTruncate /\ [][NextTruncate]_vars

\* _extract_between on its own: any document.
InitSection ==
  /\ PipeOff
  /\ StoreEmpty
  /\ ExOff
  /\ FetchOff
  /\ calls = <<>>
  /\ ValOff
  /\ pText \in DocsUpTo(MaxDoc)
  /\ pMax = 0
  /\ pOut = <<"unset">>
  /\ ProbeOff
  /\ RetryOff

NextSection == PExtract

SpecSection == InitSection /\ [][NextSection]_vars

\* One process from the start of _main: the service accepts or refuses each
\* candidate model.
InitStartup ==
  /\ PipeOff
  /\ StoreEmpty
  /\ ExOff
  /\ FetchOff
  /\ calls = <<>>
  /\ ValOff
  /\ ParseOff
  /\ probeOk \in [Models -> BOOLEAN]
  /\ mainPc = "probe"
  /\ probeIdx = 1
  /\ probed = <<>>
  /\ gemini = "none"
  /\ storeOpen = FALSE
  /\ analyses = <<>>
  /\ RetryOff

NextStartup == MProbe \/ MOpenStore \/ MAnalyse \/ MClose

SpecStartup == InitStartup /\ [][NextStartup]_vars

\* One call of extract() with the prompt it sends and the delays it sleeps:
\* each attempt returns or raises any exception of Failures.
InitRetry ==
  /\ PipeOff
  /\ StoreEmpty
  /\ FetchOff
  /\ calls = <<>>
  /\ ValOff
  /\ ParseOff
  /\ ProbeOff
  /\ exPc = "loop"
  /\ exAttempt = 0
  /\ exLastErr = NoError
  /\ exResult = [kind |-> "none"]
  /\ exTrace = <<>>
  /\ exPrompt = <<>>
  /\ exWait = 0

NextRetry == RPrompt \/ RCall \/ ExGiveUp

SpecRetry == InitRetry /\ [][NextRetry]_vars

\* The pipeline as in Spec, and also over the larger configuration: there one
\* run on a fresh store in which every filing is found and analysed and no
\* store write raises.
InitLoad ==
  \/ Init
  \/ /\ COMPANIES = LoadConfig
     /\ IPO_YEAR_FLOOR = NoFloor
     /\ fetchResp = [u \in Units |-> "path"]
     /\ svcResp = [u \in Units |-> "ok"]
     /\ StoreEmpty
     /\ runNo = MaxRuns
     /\ runPc = "start"
     /\ done = {}
     /\ work_items = <<>>
     /\ work_q = <<>>
     /\ api_q = <<>>
     /\ dl = [w \in DlWorkers |-> Idle]
     /\ api = [w \in ApiWorkers |-> Idle]
     /\ sent = 0
     /\ dlFailed = FALSE
     /\ faults = MaxStoreFaults
     /\ log0 = {}
     /\ fetched = {}
     /\ analysed = {}
     /\ writes = NoWrites
     /\ ExOff
     /\ PartsOff

NextLoad == RunStep \/ NextRun

SpecLoad == InitLoad /\ [][NextLoad]_vars


\* ------------------------------------------------------------ claims

HasRow(tbl, u) == Row(tbl, u[1], u[2]) # {}
InAudit(u) == \E i \in 1..Len(jsonl) : jsonl[i].ticker = u[1] /\ jsonl[i].year = u[2]
Enumerated == {work_items[i] : i \in 1..Len(work_items)}
Wrote(it, stage, status) == \E i \in 1..Len(writes[it]) : writes[it][i] = <<stage, status>>
FetchCount(u) == Cardinality({it \in fetched : UnitOf(it) = u})
AnalysedCount(u) == Cardinality({it \in analysed : UnitOf(it) = u})
WaitingToPut(w) == dl[w].pc = "parsed" /\ DlParsedSteps[dl[w].k] = "put"

\* The first service call of extract() that succeeded.
FirstOk == CHOOSE i \in 1..Len(exTrace) :
             exTrace[i] = "ok" /\ \A j \in 1..(i - 1) : exTrace[j] # "ok"

\* No step of the run (of run() or of a worker) can be taken any more.
RunQuiescent == runPc # "start" /\ ~ENABLED RunStep

\* C1: every run ends with every analysis worker having dequeued a sentinel
\* and returned, and with no download or analysis worker left waiting on
\* work_q or api_q, also when a download worker ended with an exception.
\* Stated on the runs' final states: when nothing of the run can move any
\* more, every analysis worker has returned through its sentinel (or ended
\* with an exception of its own) and no download worker is still waiting.
C1_WorkersEndBySentinel ==
  RunQuiescent =>
    /\ \A w \in ApiWorkers : api[w].pc \in {"exited", "crashed"}
    /\ \A w \in DlWorkers : dl[w].pc \in Terminal

\* C2: the done-set run() reads is the set of units whose recorded status is
\* "extracted", the work list holds exactly the configured units outside it
\* (so units recorded as no_filing, failed, parsed or not at all are listed
\* again), and no unit of the done-set is fetched or analysed in the run.
C2_ResumePredicate ==
  runPc \notin {"start", "off"} =>
    /\ done = {u \in Units : StatusOf(log0, u) = "extracted"}
    /\ {UnitOf(it) : it \in Enumerated} =
         {u \in ConfigUnits(COMPANIES) : StatusOf(log0, u) # "extracted"}
    /\ \A it \in fetched \cup analysed : StatusOf(log0, UnitOf(it)) # "extracted"

C2_Witness ==
  /\ runNo = 2
  /\ runPc = "done"
  /\ done # {}
  /\ \E it \in analysed : StatusOf(log0, UnitOf(it)) = "failed"

\* C3: with no store error, a second run over the same configuration and the
\* same remote answers ends with a done-set as large as the one the first run
\* left, and filing_insights never holds two rows for one (ticker, year).
C3_IdempotentResume ==
  /\ \A r1, r2 \in filing_insights :
       (r1.ticker = r2.ticker /\ r1.fiscal_year = r2.fiscal_year) => r1 = r2
  /\ (runNo = 2 /\ runPc = "done" /\ faults = 0) =>
       Cardinality(get_done_set(processing_log)) = Cardinality(get_done_set(log0))

C3_Witness ==
  /\ runNo = 2
  /\ runPc = "done"
  /\ faults = 0
  /\ get_done_set(processing_log) # {}
  /\ fetched # {}

\* C4: api_q never holds more entries (section pairs and sentinels) than its
\* bound; a download worker whose put would exceed it waits.
C4_ApiQBounded == Len(api_q) <= ApiQMax

C4_Witness ==
  /\ Len(api_q) = ApiQMax
  /\ \E w \in DlWorkers : WaitingToPut(w)

\* C5: extract() never raises and makes at most MAX_RETRIES service calls;
\* it returns the validated record of the first call that succeeds, making
\* no call after it, and when every one of the MAX_RETRIES calls failed it
\* returns the null skeleton (sentiment 5, tone conservative, three nulls).
C5_ExtractTotal ==
  /\ exPc # "raised"
  /\ Len(exTrace) <= MAX_RETRIES
  /\ exPc = "returned" =>
       IF \E i \in 1..Len(exTrace) : exTrace[i] = "ok"
       THEN /\ exResult = Validated(FirstOk)
            /\ Len(exTrace) = FirstOk
       ELSE /\ Len(exTrace) = MAX_RETRIES
            /\ exResult.kind = "null_skeleton"
            /\ exResult.mda_sentiment_score = 5
            /\ exResult.capex_guidance_tone = "conservative"
            /\ exResult.macro_concerns = <<"null", "null", "null">>

C5_Witness ==
  /\ exPc = "returned"
  /\ exResult.kind = "null_skeleton"
  /\ exTrace = <<"rate_limit", "unavailable", "invalid", "other">>

\* C6: a unit whose analysis call is rate-limited on every attempt ends the
\* run (one in which no store write raised) with status "failed" and with
\* its attempts counter one above what it was when the run started.
C6_RateLimitedUnitFailed ==
  (runPc = "done" /\ faults = 0) =>
    \A it \in analysed :
      svcResp[UnitOf(it)] = "rate_limit" =>
        /\ StatusOf(processing_log, UnitOf(it)) = "failed"
        /\ AttemptsOf(processing_log, UnitOf(it)) = AttemptsOf(log0, UnitOf(it)) + 1

\* C7: in every state (each is what a process killed there leaves behind) a
\* unit recorded as "extracted" has a row in filing_insights and a line in
\* the audit file.
C7_ExtractedIsCommitted ==
  \A u \in Units :
    StatusOf(processing_log, u) = "extracted" => HasRow(filing_insights, u) /\ InAudit(u)

C7_Witness ==
  /\ faults > 0
  /\ \E u \in Units : StatusOf(processing_log, u) = "extracted"
  /\ \E w \in ApiWorkers : api[w].pc = "write" /\ ApiWriteSteps[api[w].k] = "log_status"

\* C8: for every hand-off, the "parsed" write precedes the hand-off and every
\* status write of the analysis stage; no "parsed" write follows an
\* analysis-stage write of the same hand-off.
C8_ParsedBeforeAnalysis ==
  \A it \in AllItems :
    /\ (it \in analysed \/ \E i \in 1..Len(api_q) : api_q[i] = it
          \/ \E w \in ApiWorkers : api[w].pc \notin {"idle", "get", "exited"} /\ api[w].item = it)
         => Wrote(it, "dl", "parsed")
    /\ \A i \in 1..Len(writes[it]) :
         writes[it][i][1] = "api" =>
           /\ \E j \in 1..(i - 1) : writes[it][j] = <<"dl", "parsed">>
           /\ \A j \in (i + 1)..Len(writes[it]) : writes[it][j][1] # "dl"

C8_Witness ==
  \E it, it2 \in AllItems :
    /\ writes[it] = << <<"dl", "parsed">>, <<"api", "extracted">> >>
    /\ writes[it2] = << <<"dl", "parsed">>, <<"api", "failed">> >>

\* C9: within one run no (ticker, year) is passed to download_filing more
\* than once, nor to extract() more than once.
C9_OncePerRun ==
  \A u \in Units : FetchCount(u) <= 1 /\ AnalysedCount(u) <= 1

\* C10: when run() has returned, work_q and api_q are empty, every listed
\* item was taken from work_q, every section pair handed off was analysed,
\* and every listed unit is recorded as no_filing, failed or extracted.
C10_DrainedOnReturn ==
  runPc = "done" =>
    /\ work_q = <<>>
    /\ api_q = <<>>
    /\ Enumerated \subseteq fetched
    /\ \A it \in AllItems : Wrote(it, "dl", "parsed") => it \in analysed
    /\ \A it \in Enumerated :
         StatusOf(processing_log, UnitOf(it)) \in {"no_filing", "failed", "extracted"}

C10_Witness ==
  /\ runPc = "done"
  /\ faults > 0
  /\ analysed # {}
  /\ \E it \in Enumerated : StatusOf(processing_log, UnitOf(it)) = "failed"
  /\ \E it \in Enumerated : StatusOf(processing_log, UnitOf(it)) = "extracted"

ErrorOf(tbl, u) ==
  IF Row(tbl, u[1], u[2]) = {} THEN "absent"
  ELSE (CHOOSE r \in Row(tbl, u[1], u[2]) : TRUE).error_message

\* C11: as long as no store write has raised, an exception of the fetch or
\* of the section extraction ends neither the worker nor the run: no task
\* has ended with an exception or been cancelled, the item whose fetch
\* raised is in its worker's handler or is recorded as "failed" with the
\* error message, no unit whose fetch did not raise is recorded as "failed",
\* and when run() returns every listed item has been taken up.
C11_UnitFailureIsLocal ==
  faults = 0 =>
    /\ runPc # "raised"
    /\ \A w \in DlWorkers : dl[w].pc \notin {"crashed", "cancelled"}
    /\ \A w \in ApiWorkers : api[w].pc \notin {"crashed", "cancelled"}
    /\ \A it \in fetched :
         download_filing(it[1], it[3], fetchResp) = "error" =>
           \/ \E w \in DlWorkers : dl[w].pc = "handler" /\ dl[w].item = it
           \/ /\ Wrote(it, "dl", "failed")
              /\ StatusOf(processing_log, UnitOf(it)) = "failed"
              /\ ErrorOf(processing_log, UnitOf(it)) = "err"
    /\ \A u \in Units :
         StatusOf(processing_log, u) = "failed" => download_filing(u[1], u[2], fetchResp) = "error"
    /\ runPc = "done" => Enumerated \subseteq fetched

C11_Witness ==
  /\ runPc = "done"
  /\ faults = 0
  /\ \E it \in Enumerated : Wrote(it, "dl", "failed")
  /\ \E it \in Enumerated : Wrote(it, "api", "extracted")

\* C12: a store write that raises inside a worker stops the run: a first
\* run in which a store write raised does not end with run() returning.
C12_StoreErrorStopsRun ==
  (runNo = 1 /\ faults > 0) => runPc # "done"

\* The calls of one Storage method made so far for one (ticker, year).
CallsOf(op, u) == SelectSeq(calls, LAMBDA c : c.op = op /\ c.unit = u)
AuditCalls == SelectSeq(calls, LAMBDA c : c.op = "append_jsonl")
Last(cs) == cs[Len(cs)]

\* C15: after any sequence of Storage calls, processing_log holds no row
\* for a key log_status was never called with and exactly one row for every
\* other key, with the status and error message of the latest call for the
\* key and attempts equal to the number of log_status calls for it; and
\* log_status calls alone leave filing_insights and the audit file empty.
C15_StatusLastWriteWins ==
  /\ \A u \in Units :
       LET cs == CallsOf("log_status", u) IN
       Row(processing_log, u[1], u[2]) =
         IF cs = <<>> THEN {}
         ELSE {[ticker |-> u[1], fiscal_year |-> u[2], status |-> Last(cs).status,
                error_message |-> Last(cs).error, attempts |-> Len(cs)]}
  /\ (\A i \in 1..Len(calls) : calls[i].op = "log_status") =>
       filing_insights = {} /\ jsonl = <<>>

\* An error message cleared by a later call without one, next to the row of
\* another key.
C15_Witness ==
  \E u, u2 \in Units :
    LET cs == CallsOf("log_status", u) IN
    /\ u # u2
    /\ Len(cs) = 2
    /\ cs[1].error = "err"
    /\ cs[2].error = "null"
    /\ Row(processing_log, u2[1], u2[2]) # {}

\* C16: after any sequence of Storage calls, filing_insights holds exactly
\* one row for every key upsert_insight was called with and none for any
\* other, and the row's tier, record fields and model identifier are the
\* arguments of the latest call for the key.
C16_UpsertOverwritesAll ==
  \A u \in Units :
    LET cs == CallsOf("upsert_insight", u)
        rows == Row(filing_insights, u[1], u[2])
    IN IF cs = <<>> THEN rows = {}
       ELSE /\ Cardinality(rows) = 1
            /\ \A r \in rows : /\ r.tier = Last(cs).tier
                                /\ r.data = Last(cs).data
                                /\ r.extraction_model = Last(cs).model

\* C17: after any sequence of Storage calls (new Storage objects on the
\* same file included), the audit file holds exactly the records given to
\* append_jsonl, one line per call, in the order of the calls: no call
\* changes or removes an earlier line, and a second record for a unit is a
\* further line.
C17_AuditAppendOnly ==
  /\ Len(jsonl) = Len(AuditCalls)
  /\ \A i \in 1..Len(jsonl) :
       jsonl[i] = [ticker |-> AuditCalls[i].unit[1], year |-> AuditCalls[i].unit[2],
                   data |-> AuditCalls[i].data]

\* Two records of one unit, the second written by a later Storage object.
C17_Witness ==
  /\ Len(jsonl) = 2
  /\ jsonl[1].ticker = jsonl[2].ticker
  /\ jsonl[1].data # jsonl[2].data
  /\ calls[2].op = "init"

\* The service's number for the sentiment score, and that number brought
\* into [1,10].
ServiceScore == vReply.score[2]
Clamped(n) == IF n < 1 THEN 1 ELSE IF n > 10 THEN 10 ELSE n

C19_MissingFieldRetried ==
  exTrace # <<>> =>
    /\ (vReply.kind = "data" /\ vReply.missing # {}) =>
         /\ Last(exTrace) = "invalid"
         /\ exAttempt = Len(exTrace)
         /\ exPc = "returned" => exResult.kind = "null_skeleton"
    /\ (exPc = "returned" /\ exResult.kind = "validated") =>
         vReply.kind = "data" /\ vReply.missing = {}
    /\ (exPc = "returned" /\ exResult.kind = "null_skeleton") =>
         /\ Len(exTrace) = MAX_RETRIES
         /\ \A i \in 1..Len(exTrace) : exTrace[i] # "ok"

\* A record returned at the third attempt, after two responses that lacked
\* a field.
C19_Witness ==
  /\ exPc = "returned"
  /\ exResult.kind = "validated"
  /\ exTrace = <<"invalid", "invalid", "ok">>
  /\ exLastErr = "invalid"

\* C20 (as claimed): the ticker, year and filing type of the record
\* extract() returns are those of the call's arguments.
C20_StampedFromArgs ==
  (vArgs # <<>> /\ exPc = "returned") =>
    /\ exResult.ticker = vArgs.ticker
    /\ exResult.year = vArgs.year
    /\ exResult.filing_type = vArgs.form_type

\* C20 (amended): the year and filing type of the record extract() returns
\* (validated record or null skeleton) are those of the call's arguments
\* and its ticker is the argument's ticker in upper case, whatever the
\* response echoes.
C20_StampedFromArgsUpper ==
  (vArgs # <<>> /\ exPc = "returned") =>
    /\ exResult.ticker = Upper(vArgs.ticker)
    /\ exResult.year = vArgs.year
    /\ exResult.filing_type = vArgs.form_type

\* A validated record for a response that echoes another ticker, another
\* year and another filing type.
C20_Witness ==
  /\ exPc = "returned"
  /\ exResult.kind = "validated"
  /\ vArgs = [ticker |-> "b", year |-> 2, form_type |-> "20-F"]
  /\ vReply.ticker = Str("X")
  /\ vReply.year = NumStr(3)
  /\ vReply.filing_type = Str("10-K")

\* In-flight requests to the remote document service.
InFlight == {w \in FetchTasks : fw[w].pc \in {"lookup", "sub_req", "page_req", "dl_req"}}
LookingUp == {w \in FetchTasks : fw[w].pc = "lookup"}

\* C13: _load_cik_map fills the identifier cache at most once, at most one
\* lookup request is in flight at any time, and no lookup request is in
\* flight once the cache is not empty.
C13_CikCacheFilledOnce ==
  /\ populations <= 1
  /\ Cardinality(LookingUp) <= 1
  /\ LookingUp # {} => cik_cache = {}

\* Concurrent first access: a task that found the cache empty and waited
\* for the lock finds it filled at the re-check.
C13_Witness ==
  /\ populations = 1
  /\ \E w \in FetchTasks : fw[w].pc = "recheck" /\ cik_cache # {}

\* C14: the requests in flight to the remote document service (identifier
\* lookup, submissions index, paginated files, filing download) never
\* number more than SEC_RATE_LIMIT, with more tasks than the ceiling.
C14_RequestsCapped ==
  /\ Cardinality(FetchTasks) > SEC_RATE_LIMIT
  /\ Cardinality(InFlight) <= SEC_RATE_LIMIT

C14_Witness ==
  /\ Cardinality(InFlight) = SEC_RATE_LIMIT
  /\ \E w \in FetchTasks : fw[w].pc \in DOMAIN Waiting

\* Where the marker occurs in a text.
MarkerAt(out) ==
  {i \in 1..(Len(out) - Len(MARKER) + 1) : SubSeq(out, i, i + Len(MARKER) - 1) = MARKER}

IsPrefix(a, b) == Len(a) <= Len(b) /\ SubSeq(b, 1, Len(a)) = a
IsSuffix(a, b) == Len(a) <= Len(b) /\ SubSeq(b, Len(b) - Len(a) + 1, Len(b)) = a

TruncateContract(text, max_chars, out) ==
  IF Len(text) <= max_chars
  THEN out = text
  ELSE /\ Len(out) <= max_chars
       /\ Cardinality(MarkerAt(out)) = 1
       /\ \A i \in MarkerAt(out) :
            /\ IsPrefix(SubSeq(out, 1, i - 1), text)
            /\ IsSuffix(SubSeq(out, i + Len(MARKER), Len(out)), text)

\* C21: for every text and every max_chars, _smart_truncate returns the text
\* unchanged when it fits, and otherwise at most max_chars characters holding
\* the marker exactly once, a prefix of the text before it and a suffix of the
\* text after it.
C21_TruncateContract ==
  pOut[1] = "text" => TruncateContract(pText, pMax, pOut[2])

\* The same for a max_chars above the marker's length and a text that does
\* not hold the marker.
TruncateContractAboveMarker ==
  (pOut[1] = "text" /\ pMax > Len(MARKER) /\ MarkerAt(pText) = {})
    => TruncateContract(pText, pMax, pOut[2])

\* The start matches of a document, those that leave more than the threshold
\* after them, the chosen one, and the end matches after it.
Starts(text) == {i \in 1..Len(text) : text[i] = "S"}
LongTail(text) == {i \in Starts(text) : Len(text) - i > TAIL_MIN}
SetMax(S) == CHOOSE x \in S : \A y \in S : y <= x
SetMin(S) == CHOOSE x \in S : \A y \in S : x <= y
Chosen(text) ==
  IF LongTail(text) # {} THEN SetMax(LongTail(text)) ELSE SetMax(Starts(text))
EndsAfter(text, i) == {j \in (i + 1)..Len(text) : text[j] \in {"E1", "E2"}}
Span(text) ==
  LET i == Chosen(text)
      stop == IF EndsAfter(text, i) = {} THEN Len(text) + 1 ELSE SetMin(EndsAfter(text, i))
  IN SubSeq(text, i + 1, stop - 1)
Blank(t) == \A i \in 1..Len(t) : t[i] = " "
Trimmed(t, span) ==
  /\ t # <<>> /\ t[1] # " " /\ t[Len(t)] # " "
  /\ \E a \in 0..Len(span) : \E b \in 0..Len(span) :
       /\ a + Len(t) + b = Len(span)
       /\ SubSeq(span, a + 1, a + Len(t)) = t
       /\ Blank(SubSeq(span, 1, a))
       /\ Blank(SubSeq(span, Len(span) - b + 1, Len(span)))

Working == {i \in 1..Len(model_priority) : probeOk[model_priority[i]]}
FirstWorking == IF Working = {} THEN 0 ELSE SetMin(Working)

\* C23: the startup probe tries the candidates in preference order, selects
\* the first one whose probe succeeds and probes none after it, and every
\* analysis call of the process uses that model; when every probe fails,
\* startup fails before the store is opened and before any analysis call.
C23_FirstWorkingModel ==
  /\ probed = SubSeq(model_priority, 1, Len(probed))
  /\ Len(probed) <= IF FirstWorking = 0 THEN Len(model_priority) ELSE FirstWorking
  /\ gemini # "none" =>
       /\ FirstWorking # 0
       /\ gemini = model_priority[FirstWorking]
       /\ Len(probed) = FirstWorking
  /\ \A i \in 1..Len(analyses) :
       FirstWorking # 0 /\ analyses[i][2] = model_priority[FirstWorking]
  /\ (storeOpen \/ mainPc \in {"store", "run", "exit"}) => gemini # "none"
  /\ FirstWorking = 0 =>
       /\ mainPc \in {"probe", "failed"}
       /\ ~storeOpen
       /\ analyses = <<>>
  /\ mainPc = "failed" => Len(probed) = Len(model_priority) /\ FirstWorking = 0

C23_Witness ==
  /\ mainPc = "exit"
  /\ gemini = "m2"
  /\ probeOk["m3"]
  /\ probed = <<"m1", "m2">>
  /\ Len(analyses) >= 2

\* The units of the configuration whose year is below their ticker's floor.
PreIpo == {u \in ConfigUnits(COMPANIES) : BelowFloor(u[1], u[2])}

\* C24: a unit whose fiscal year is below its ticker's IPO-year floor is never
\* enumerated as a work unit, never placed on the work queue, and no status
\* record is ever written for it.
C24_PreIpoNeverEnumerated ==
  \A u \in PreIpo :
    /\ \A it \in Enumerated : UnitOf(it) # u
    /\ \A i \in 1..Len(work_q) : work_q[i] # None => UnitOf(work_q[i]) # u
    /\ ~HasRow(processing_log, u)

\* The failure classes in the order of the handler's rules.
RateLimit(e) == e.quota
Unavailable(e) == ~e.quota /\ e.unavailable
ParseFailure(e) == ~e.quota /\ ~e.unavailable /\ e.type \in {"JSONDecodeError", "ValueError"}
OtherFailure(e) == ~e.quota /\ ~e.unavailable /\ e.type \notin {"JSONDecodeError", "ValueError"}

\* C25: after failed attempt number k (0..3) the delay is 2^k plus a jitter in
\* [0,1) for a rate-limit failure (bases 1, 2, 4, 8), 5*(k+1) for an unavailable
\* service (5, 10, 15, 20), 2 for a parse or validation failure and 3 for any
\* other; the class is the first rule that matches, in that order, and every
\* failure uses up exactly one of the 4 attempts.  (Delays in tenths.)
C25_DelayByClass ==
  /\ exAttempt = Len(exTrace)
  /\ exAttempt <= MAX_RETRIES
  /\ (exPc = "loop" /\ exTrace # <<>>) =>
       LET e == Last(exTrace)
           k == Len(exTrace) - 1
       IN /\ k \in 0..3
          /\ Cardinality({c \in {1, 2, 3, 4} :
                \/ c = 1 /\ RateLimit(e)
                \/ c = 2 /\ Unavailable(e)
                \/ c = 3 /\ ParseFailure(e)
                \/ c = 4 /\ OtherFailure(e)}) = 1
          /\ RateLimit(e) =>
               /\ exWait >= <<10, 20, 40, 80>>[k + 1]
               /\ exWait < <<10, 20, 40, 80>>[k + 1] + 10
          /\ Unavailable(e) => exWait = <<50, 100, 150, 200>>[k + 1]
          /\ ParseFailure(e) => exWait = 20
          /\ OtherFailure(e) => exWait = 30

C25_Witness ==
  /\ exPc = "loop"
  /\ exAttempt = 4
  /\ OtherFailure(exTrace[1])
  /\ ParseFailure(exTrace[2])
  /\ Unavailable(exTrace[3]) /\ exTrace[3].type = "ValueError"
  /\ RateLimit(exTrace[4]) /\ exTrace[4].unavailable
  /\ exWait = 89

\* C26: the prompt of the first attempt carries no error; after an attempt
\* fails with a parse or validation failure the prompt of the next attempt is
\* the original prompt with that one error, the latest, and nothing more.
C26_PromptCarriesLastError ==
  exPc = "call" =>
    /\ exAttempt = 0 => exPrompt = <<"user_prompt">>
    /\ (exAttempt > 0 /\ Last(exTrace).type \in {"JSONDecodeError", "ValueError"}) =>
         exPrompt = <<"user_prompt", Last(exTrace)>>

C26_Witness ==
  /\ exPc = "call"
  /\ exAttempt = 3
  /\ exTrace[1] # exTrace[3]
  /\ exTrace[2] # exTrace[3]
  /\ ParseFailure(exTrace[3])
  /\ exPrompt = <<"user_prompt", exTrace[3]>>

\* The unit is in the done-set of the run: its status was 'extracted' when the
\* run started (before StartRun: it is 'extracted' now).
DoneAtStart(u, pc, d, log) ==
  IF pc = "start" THEN StatusOf(log, u) = "extracted" ELSE u \in d

AuditOf(file, u) ==
  SelectSeq(file, LAMBDA line : line.ticker = u[1] /\ line.year = u[2])

\* C27: once a unit's status is 'extracted' at the start of a run, no step of
\* that run or of a later run writes its status, its insight row or an audit
\* line for it, and it is in the done-set of every later run.
C27_DoneSetNeverShrinks ==
  [][\A u \in Units :
       DoneAtStart(u, runPc, done, processing_log) =>
         /\ DoneAtStart(u, runPc', done', processing_log')
         /\ Row(processing_log', u[1], u[2]) = Row(processing_log, u[1], u[2])
         /\ Row(filing_insights', u[1], u[2]) = Row(filing_insights, u[1], u[2])
         /\ AuditOf(jsonl', u) = AuditOf(jsonl, u)]_vars

C27_Witness ==
  /\ runNo = 2
  /\ runPc = "done"
  /\ done # {}
  /\ \E it \in fetched : UnitOf(it) \notin done /\ writes[it] # <<>>
  /\ \A u \in done : StatusOf(processing_log, u) = "extracted" /\ HasRow(filing_insights, u)

\* The units whose section pair has been produced and whose analysis has not
\* finished: held by a download worker that has yet to enqueue, in api_q, or
\* held by an analysis worker.
HandoffCount ==
  Cardinality({w \in DlWorkers : dl[w].pc = "parsed"})
    + Cardinality({i \in 1..Len(api_q) : api_q[i] # None})
    + Cardinality({w \in ApiWorkers : api[w].pc \in {"extract", "write", "handler"}})

\* C28: in every state of a run the number of units produced by the fetch
\* stage and not yet through analysis is at most the queue bound plus the
\* number of download workers plus the number of analysis workers.
C28_HandoffBounded ==
  HandoffCount <= ApiQMax + SEC_WORKERS + VERTEX_WORKERS

C28_Witness ==
  /\ HandoffCount = ApiQMax + SEC_WORKERS + VERTEX_WORKERS
  /\ \A w \in DlWorkers : WaitingToPut(w)
  /\ ~CanPut(api_q, ApiQMax)
  /\ work_q # <<>>
  /\ Head(work_q) # None

====
